---- MODULE Spec2Model ----
(***************************************************************************)
(* Star-ship game (src/src/main.rs): one ship entity with a Transform      *)
(* (rotation, translation), a Velocity and an Engine, and three systems    *)
(* that Bevy runs once per frame in the Update schedule:                   *)
(*   rotate_ship_system, velocity_system, engine_system.                   *)
(*                                                                         *)
(* Representation of the f32 quantities (all arithmetic below is exact):   *)
(*   - time.delta_seconds() is a whole number of 1/TicksPerSecond seconds; *)
(*   - an angle is a whole number of 1/TicksPerSecond radians, which is    *)
(*     what rotation_speed = 1 rad/s turns in one time unit; a full turn   *)
(*     (2*pi/0.2 = 31.4 units) is taken as FullTurn = 32 units so that     *)
(*     quarter turns are on the lattice;                                   *)
(*   - sin and cos are tabulated in units of 1/Scale;                      *)
(*   - velocity and translation components are held in units of 1/Scale    *)
(*     (pixel per second, pixel); fuel is held in fuel units.              *)
(* With thrust = 100 and TicksPerSecond = 5 every product the systems form *)
(* is a whole number of these units.                                       *)
(***************************************************************************)
EXTENDS Integers

VARIABLES
    rotation,      \* transform.rotation: a rotation about z, as its angle on the double cover
    translation,   \* transform.translation: <<x, y>>
    velocity,      \* Velocity {x, y}: <<x, y>>
    fuel,          \* Engine.fuel
    delta,         \* Time: delta_seconds() of the current frame
    pressed,       \* Input<KeyCode>: the keys held in the current frame
    window,        \* the primary window: <<width, height>>
    pending,       \* the Update systems that have not yet run in the current frame
    frame          \* number of frames begun

vars == <<rotation, translation, velocity, fuel, delta, pressed, window, pending, frame>>

----------------------------------------------------------------------------
(* Bounds of the model *)

MaxFrames == 3

----------------------------------------------------------------------------
(* Resolution of the fixed-point representation *)

TicksPerSecond == 5
Scale == 1000
FullTurn == 32

HalfTurn == FullTurn \div 2
QuarterTurn == FullTurn \div 4
QuatPeriod == 2 * FullTurn

----------------------------------------------------------------------------
(* Values set by setup, and the clamp range of engine_system *)

RotationSpeed == 1
InitialFuel == 100
Thrust == 100
FuelMin == 0
FuelMax == 1000

Systems == {"rotate", "velocity", "engine"}
Keys == {"Left", "Right", "Up"}

\* Frame inputs: 0 s (Bevy's first frame), 0.2 s, 1 s, and a 4 s stall.
DtValues == {0, 1, 5, 20}
\* Frame inputs of the resize scenario: 0.2 s and 3.2 s (half a turn).
DtResize == {1, 16}

DefaultWindow == <<1280, 720>>
SmallWindow == <<256, 128>>
WindowSizes == {DefaultWindow, SmallWindow}

----------------------------------------------------------------------------
(* glam: rotations about z.  A unit quaternion (0, 0, sin(a/2), cos(a/2)) is *)
(* determined by a modulo two full turns.                                   *)

FromRotationZ(angle) == angle % QuatPeriod

QuatMul(q, r) == (q + r) % QuatPeriod

\* to_euler(EulerRot::YXZ).2: the angle about z, in (-HalfTurn, HalfTurn].
ToEulerZ(q) ==
    LET a == q % FullTurn
    IN  IF a > HalfTurn THEN a - FullTurn ELSE a

\* sin(k * pi / 16) * Scale for k = 0 .. 8
SinTable == <<0, 195, 383, 556, 707, 831, 924, 981, 1000>>

Sin(z) ==
    LET a == z % FullTurn
    IN  IF a <= QuarterTurn THEN SinTable[a + 1]
        ELSE IF a <= HalfTurn THEN SinTable[HalfTurn - a + 1]
        ELSE IF a <= HalfTurn + QuarterTurn THEN -SinTable[a - HalfTurn + 1]
        ELSE -SinTable[FullTurn - a + 1]

Cos(z) == Sin(z + QuarterTurn)

Clamp(x, lo, hi) == IF x < lo THEN lo ELSE IF x > hi THEN hi ELSE x

----------------------------------------------------------------------------
(* rotate_ship_system *)

TurnLeftAngle(dt, speed) == dt * speed

TurnRightAngleSameSign(dt, speed) == dt * speed

TurnRightAngle(dt, speed) == dt * (-speed)

RotationAfter(q, keys, dt, speed) ==
    IF "Left" \in keys
    THEN QuatMul(q, FromRotationZ(TurnLeftAngle(dt, speed)))
    ELSE IF "Right" \in keys
    THEN QuatMul(q, FromRotationZ(TurnRightAngle(dt, speed)))
    ELSE q

rotate_ship_system ==
    /\ "rotate" \in pending
    /\ rotation' = RotationAfter(rotation, pressed, delta, RotationSpeed)
    /\ pending' = pending \ {"rotate"}
    /\ UNCHANGED <<translation, velocity, fuel, delta, pressed, window, frame>>

----------------------------------------------------------------------------
(* velocity_system *)

\* velocity * time.delta_seconds()
Displacement(v, dt) == (v * dt) \div TicksPerSecond

WrapAxisInclusive(c, dim) ==
    IF 2 * c <= -(dim * Scale) THEN c + dim * Scale
    ELSE IF 2 * c >= dim * Scale THEN c - dim * Scale
    ELSE c

\* if c < -dim / 2.0 { c += dim } else if c > dim / 2.0 { c -= dim }
WrapAxis(c, dim) ==
    IF 2 * c < -(dim * Scale) THEN c + dim * Scale
    ELSE IF 2 * c > dim * Scale THEN c - dim * Scale
    ELSE c

TranslationAfter(t, v, dt, win) ==
    << WrapAxis(t[1] + Displacement(v[1], dt), win[1]),
       WrapAxis(t[2] + Displacement(v[2], dt), win[2]) >>

velocity_system ==
    /\ "velocity" \in pending
    /\ translation' = TranslationAfter(translation, velocity, delta, window)
    /\ pending' = pending \ {"velocity"}
    /\ UNCHANGED <<rotation, velocity, fuel, delta, pressed, window, frame>>

----------------------------------------------------------------------------
(* engine_system *)

EngineActiveAtZeroFuel(keys, f) == "Up" \in keys /\ f >= 0

EngineActiveIgnoringFuel(keys, f) == "Up" \in keys

\* keyboard_input.pressed(KeyCode::Up) && engine.fuel > 0.0
EngineActive(keys, f) == "Up" \in keys /\ f > 0

\* engine.thrust * time.delta_seconds()
Impulse(dt) == (Thrust * dt) \div TicksPerSecond

VelocityAfterBurnSameSign(v, z, dt) ==
    << v[1] + Impulse(dt) * Sin(z), v[2] + Impulse(dt) * Cos(z) >>

VelocityAfterBurn(v, z, dt) ==
    << v[1] - Impulse(dt) * Sin(z), v[2] + Impulse(dt) * Cos(z) >>

FuelAfterBurnUnclamped(f, dt) == f - Impulse(dt)

FuelAfterBurn(f, dt) == Clamp(f - Impulse(dt), FuelMin, FuelMax)

engine_system ==
    /\ "engine" \in pending
    /\ IF EngineActive(pressed, fuel)
       THEN /\ velocity' = VelocityAfterBurn(velocity, ToEulerZ(rotation), delta)
            /\ fuel' = FuelAfterBurn(fuel, delta)
       ELSE UNCHANGED <<velocity, fuel>>
    /\ pending' = pending \ {"engine"}
    /\ UNCHANGED <<rotation, translation, delta, pressed, window, frame>>

----------------------------------------------------------------------------
(* The frame loop: Bevy updates Time, Input and Window, then runs the three *)
(* Update systems, between which main() declares no order.                  *)

FrameBegin(dts, wins) ==
    /\ pending = {}
    /\ frame < MaxFrames
    /\ \E d \in dts, k \in SUBSET Keys, w \in wins :
          /\ delta' = d
          /\ pressed' = k
          /\ window' = w
    /\ pending' = Systems
    /\ frame' = frame + 1
    /\ UNCHANGED <<rotation, translation, velocity, fuel>>

\* setup: the spawned ship, before the first frame
Init ==
    /\ rotation = 0
    /\ translation = <<0, 0>>
    /\ velocity = <<0, 0>>
    /\ fuel = InitialFuel
    /\ delta = 0
    /\ pressed = {}
    /\ window = DefaultWindow
    /\ pending = {}
    /\ frame = 0

NextFrame == FrameBegin(DtValues, {DefaultWindow})

Next ==
    \/ NextFrame
    \/ rotate_ship_system
    \/ velocity_system
    \/ engine_system

Spec == Init /\ [][Next]_vars

\* The systems in the order main() lists them.
RotateFirst == pending = Systems /\ rotate_ship_system
VelocitySecond == "rotate" \notin pending /\ velocity_system
EngineLast == "velocity" \notin pending /\ engine_system

NextRegistration ==
    \/ NextFrame
    \/ RotateFirst
    \/ VelocitySecond
    \/ EngineLast

SpecRegistration == Init /\ [][NextRegistration]_vars

\* The window is resized between frames.
NextFrameResize == FrameBegin(DtResize, WindowSizes)

NextResize ==
    \/ NextFrameResize
    \/ rotate_ship_system
    \/ velocity_system
    \/ engine_system

SpecResize == Init /\ [][NextResize]_vars

----------------------------------------------------------------------------
(* Vocabulary of the properties *)

\* The heading: the angle about z of transform.rotation, in 0 .. FullTurn - 1.
Heading == ToEulerZ(rotation) % FullTurn

RotateStep == "rotate" \in pending /\ "rotate" \notin pending'
VelocityStep == "velocity" \in pending /\ "velocity" \notin pending'
EngineStep == "engine" \in pending /\ "engine" \notin pending'

Abs(n) == IF n < 0 THEN -n ELSE n

\* -dim/2 <= c <= dim/2
AxisOnScreen(c, dim) == -(dim * Scale) <= 2 * c /\ 2 * c <= dim * Scale

OnScreen(t, win) == AxisOnScreen(t[1], win[1]) /\ AxisOnScreen(t[2], win[2])

FrameDone == pending = {}

----------------------------------------------------------------------------
(* C1: fuel never increases from one step to the next, and in every        *)
(* reachable state 0 <= fuel <= 1000.                                      *)
C1_FuelNonIncreasingInRange ==
    /\ [][fuel' <= fuel]_vars
    /\ [](0 <= fuel /\ fuel <= 1000)

\* A burn that asked for more fuel than was left (0.2 s at 80, then 4 s): clamped to 0.
C1_Witness_ClampedBurn ==
    /\ fuel = 0
    /\ "engine" \notin pending
    /\ "Up" \in pressed
    /\ delta = 20
    /\ velocity = <<0, 420 * Scale>>

(* C2: in rotate_ship_system, when Left and Right are both held, or neither *)
(* is, the heading after the system equals the heading before it.          *)
C2_BothOrNeitherKeepsHeading ==
    [][ (RotateStep /\ ({"Left", "Right"} \subseteq pressed
                          \/ {"Left", "Right"} \cap pressed = {}))
        => Heading' = Heading ]_vars

(* C3: in rotate_ship_system, with only Left held the heading increases by  *)
(* rotation_speed * dt modulo a full turn, with only Right held it         *)
(* decreases by rotation_speed * dt; translation, velocity and fuel are    *)
(* not changed.                                                            *)
C3_TurnByRotationSpeedTimesDt ==
    [][ RotateStep =>
          /\ ("Left" \in pressed /\ "Right" \notin pressed)
                => Heading' = (Heading + RotationSpeed * delta) % FullTurn
          /\ ("Right" \in pressed /\ "Left" \notin pressed)
                => Heading' = (Heading - RotationSpeed * delta) % FullTurn
          /\ translation' = translation
          /\ velocity' = velocity
          /\ fuel' = fuel ]_vars

\* Only Right held for 1 s from heading 0: the heading is 5 units short of a full turn.
C3_Witness_TurnedRight ==
    /\ "rotate" \notin pending
    /\ pressed = {"Right"}
    /\ delta = 5
    /\ frame = 1
    /\ Heading = FullTurn - 5

(* C4: after velocity_system, each coordinate lies within half the window   *)
(* dimension of the origin whenever the displacement |velocity * dt| of    *)
(* that step was at most one window dimension on that axis.                *)
C4_OnScreenAfterBoundedDisplacement ==
    [][ VelocityStep =>
          /\ Abs(Displacement(velocity[1], delta)) <= window[1] * Scale
                => AxisOnScreen(translation'[1], window[1])
          /\ Abs(Displacement(velocity[2], delta)) <= window[2] * Scale
                => AxisOnScreen(translation'[2], window[2]) ]_vars

(* C5: in every state reachable from the spawned ship the translation is    *)
(* within the window: -width/2 <= x <= width/2, -height/2 <= y <= height/2. *)
C5_PositionAlwaysOnScreen == OnScreen(translation, window)

(* C6: when Up is held and fuel > 0, engine_system adds                     *)
(* thrust * dt * (-sin(heading), cos(heading)) to velocity, whatever fuel  *)
(* is left, and sets fuel to clamp(fuel - thrust * dt, 0, 1000); rotation  *)
(* and translation are unchanged.  Heading 0, dt = 1 s, fuel 100 gives     *)
(* velocity (0, 100) and fuel 0.                                           *)
C6_BurnAddsFullImpulse ==
    [][ (EngineStep /\ "Up" \in pressed /\ fuel > 0) =>
          /\ velocity'[1] * TicksPerSecond
                = velocity[1] * TicksPerSecond - Thrust * delta * Sin(Heading)
          /\ velocity'[2] * TicksPerSecond
                = velocity[2] * TicksPerSecond + Thrust * delta * Cos(Heading)
          /\ fuel' * TicksPerSecond
                = Clamp(fuel * TicksPerSecond - Thrust * delta,
                        0, 1000 * TicksPerSecond)
          /\ rotation' = rotation
          /\ translation' = translation
          /\ (Heading = 0 /\ delta = TicksPerSecond /\ fuel = 100
                /\ velocity = <<0, 0>>)
                => (velocity' = <<0, 100 * Scale>> /\ fuel' = 0) ]_vars

\* A burn at a heading off the axes with less fuel left than the impulse:
\* 0.2 s at heading 0, then 1 s at heading 4 (an eighth of a turn to the left).
C6_Witness_BurnOffAxis ==
    /\ "engine" \notin pending
    /\ "Up" \in pressed
    /\ delta = 5
    /\ Heading = 4
    /\ fuel = 0
    /\ velocity = <<-100 * 707, 20 * Scale + 100 * 707>>

(* C7: in engine_system, if Up is not held or fuel <= 0, velocity and fuel  *)
(* after the system equal their values before it.                          *)
C7_NoBurnKeepsVelocityAndFuel ==
    [][ (EngineStep /\ ("Up" \notin pressed \/ fuel <= 0))
        => (velocity' = velocity /\ fuel' = fuel) ]_vars

\* engine_system has run with Up held for 4 s and the tank already empty: a burn of
\* 4 s would have left a speed of at least 300, and the speed is 100.
C7_Witness_UpHeldOnEmptyTank ==
    /\ "engine" \notin pending
    /\ "Up" \in pressed
    /\ delta = 20
    /\ fuel = 0
    /\ velocity = <<0, 100 * Scale>>

\* On axis i the step has moved the ship by velocity * dt, up to one window dimension.
MovedOnAxis(i) ==
    LET target == translation[i] * TicksPerSecond + velocity[i] * delta
        dim == window[i] * Scale * TicksPerSecond
    IN  translation'[i] * TicksPerSecond \in {target, target - dim, target + dim}

(* C8: once fuel is 0 it stays 0 and velocity keeps its value in every      *)
(* later step, velocity_system keeps moving the ship by velocity * dt, and *)
(* a further step is enabled (short of the frame bound of the model).      *)
C8_CoastsForeverOnEmptyTank ==
    /\ [][ fuel = 0 =>
             /\ fuel' = 0
             /\ velocity' = velocity
             /\ VelocityStep => \A i \in {1, 2} : MovedOnAxis(i)
         ]_vars
    /\ []((frame < MaxFrames \/ pending # {}) => ENABLED Next)

\* Two frames of 1 s each after the tank ran dry at the start of the first one.
C8_Witness_Coasted ==
    /\ fuel = 0
    /\ FrameDone
    /\ frame = 3
    /\ velocity = <<0, 100 * Scale>>
    /\ translation = <<0, 200 * Scale>>

C10_InvariantsInAnyOrder ==
    FrameDone => (0 <= fuel /\ fuel <= 1000 /\ OnScreen(translation, window))

====
